---- MODULE Spec2Model ----
(***************************************************************************)
(* StresStimulus report comparator (src/pt_app.py).                        *)
(*                                                                         *)
(* One run of the script: the uploaded HTML reports are parsed one by one  *)
(* (summary, transaction averages, top errors), the transaction averages   *)
(* are joined into one comparison table, the table is annotated against    *)
(* the SLA threshold, and the error matrix (or its warning) is shown.      *)
(*                                                                         *)
(* Times are in tenths of a second (0.9 s is 9).  A numeric cell is <<v>>, *)
(* the missing marker (pandas NaN) is <<>>.                                *)
(***************************************************************************)
EXTENDS Integers, Sequences, FiniteSets, TLC

VARIABLES
    uploaded_files,     \* st.file_uploader: the batch, a sequence of documents
    pc,                 \* "start", "loop", "compare", "errors", "done", "crashed"
    idx,                \* number of files the per-file loop has processed
    summary_data,       \* list of summary records, one per processed file
    transactions_dict,  \* dict: report name -> Series of Avg.(s) text
    error_rows,         \* list of the non-empty error DataFrames
    df_txn,             \* the loop's df_txn (last file parsed)
    df_errors,          \* the loop's df_errors (last file parsed)
    sla_value,          \* st.number_input value, tenths of a second
    combined_df,        \* the comparison table after numeric coercion
    highlighted,        \* cells styled as breaches: set of <<row, column>>
    within_sla,         \* pie chart: count within SLA
    above_sla,          \* pie chart: count above SLA
    df_error_matrix,    \* concatenated error table
    rendered            \* the page elements shown so far

vars == <<uploaded_files, pc, idx, summary_data, transactions_dict, error_rows,
          df_txn, df_errors, sla_value, combined_df, highlighted, within_sla,
          above_sla, df_error_matrix, rendered>>

----------------------------------------------------------------------------
(* Bounds of the model *)

MaxFiles == 3       \* files per batch, pipeline specification
MaxTxnRows == 2     \* data rows per transaction table, pipeline specification
MaxErrFiles == 2    \* files per batch, error-matrix specification
MaxErrRows == 2     \* rows (header included) per Top Errors table
MaxSlaFiles == 2    \* files per batch, SLA specification
MaxSlaRows == 1     \* data rows per transaction table, SLA specification
MaxRows == 4        \* <tr> rows per table, row-extraction specification

(* Program constants *)

SlaDefault == 10    \* number_input value=1.0
SlaMin == 0         \* number_input min_value=0.0
TxnMinCells == 8    \* len(tds) > 8
AvgCell == 9        \* tds[8], counted from 1
ErrMinCells == 3    \* len(tds) >= 3

----------------------------------------------------------------------------
(* Text and numbers *)

NaN == <<>>
Num(v) == <<v>>

\* str.strip() / get_text(strip=True) on the texts the model uses
Padded == (" 1.4 " :> "1.4") @@ ("  Passed" :> "Passed") @@ (" Login" :> "Login")

Strip(s) == IF s \in DOMAIN Padded THEN Padded[s] ELSE s

\* the texts pd.to_numeric parses, with their value in tenths
NumericLiterals ==
    ("0" :> 0) @@ ("0.9" :> 9) @@ ("1.4" :> 14) @@ ("2.1" :> 21)

\* pd.to_numeric(errors="coerce") on one cell: NaN stays NaN, numeric text
\* becomes its number, any other text becomes NaN
ToNumeric(cell) ==
    IF cell = NaN THEN NaN
    ELSE IF cell[1] \in DOMAIN NumericLiterals THEN Num(NumericLiterals[cell[1]])
    ELSE NaN

\* the breach test written val >= sla_value
GreaterThan_geq(val, sla) == val # NaN /\ val[1] >= sla

\* the within-SLA test written with the comparison reversed
LessEqual_reversed(val, sla) == val # NaN /\ val[1] >= sla

\* val > sla_value and val <= sla_value on a float cell: false on NaN
GreaterThan(val, sla) == val # NaN /\ val[1] > sla
LessEqual(val, sla) == val # NaN /\ val[1] <= sla

----------------------------------------------------------------------------
(* Documents *)

NoLabel == [found |-> FALSE, td |-> FALSE, text |-> ""]
NoCell == [found |-> TRUE, td |-> FALSE, text |-> ""]
Cell(t) == [found |-> TRUE, td |-> TRUE, text |-> t]

RunInfoLabels == {"Start time", "End time"}
OverallLabels == {"Pass/Fail Status", "Max User Load"}
RequestsLabels == {"Failed Requests %"}

AbsentSection(labels) == [present |-> FALSE, labels |-> [l \in labels |-> NoLabel]]

NoSection == [present |-> FALSE, has_table |-> FALSE, trs |-> <<>>]
NoTable == [present |-> TRUE, has_table |-> FALSE, trs |-> <<>>]
Table(trs) == [present |-> TRUE, has_table |-> TRUE, trs |-> trs]

\* a <tr> of n <td> cells: the name first, the average ninth
TxnRow(name, avg, n) ==
    [i \in 1..n |-> IF i = 1 THEN name ELSE IF i = AvgCell THEN avg ELSE "x"]

\* a <tr> of n <td> cells of the Top Errors table
ErrRow(tc, n) ==
    [i \in 1..n |-> IF i = 1 THEN tc ELSE IF i = 2 THEN "42" ELSE "Timeout"]

HeaderRow == <<>>   \* <th> cells only: no <td>

----------------------------------------------------------------------------
(* parse_stresstimulus_summary *)

SummaryKeys == {"Report Name", "Start Time", "End Time", "Pass/Fail Status",
                "Max User Load", "Failed Requests %"}

\* section.find(string=label).find_next("td").text.strip() raises
\* AttributeError when the label or the following cell is not found
Raises(section, label) ==
    ~section.labels[label].found \/ ~section.labels[label].td

Lookup(section, label) == Strip(section.labels[label].text)

\* the field left empty instead of "N/A" when nothing is extracted
TryField_empty(section, label) ==
    IF section.present /\ ~Raises(section, label)
    THEN Lookup(section, label) ELSE ""

\* one try block holding the single assignment of one field
TryField(section, label) ==
    IF section.present /\ ~Raises(section, label)
    THEN Lookup(section, label) ELSE "N/A"

\* the try block of the run-information section: start_time is assigned
\* first and end_time second, one except clause for both
TryRunInfo(run_info) ==
    IF ~run_info.present THEN <<"N/A", "N/A">>
    ELSE IF Raises(run_info, "Start time") THEN <<"N/A", "N/A">>
    ELSE IF Raises(run_info, "End time")
         THEN <<Lookup(run_info, "Start time"), "N/A">>
    ELSE <<Lookup(run_info, "Start time"), Lookup(run_info, "End time")>>

parse_stresstimulus_summary(soup, file_name) ==
    LET times == TryRunInfo(soup.run_info)
    IN  ("Report Name" :> file_name) @@
        ("Start Time" :> times[1]) @@
        ("End Time" :> times[2]) @@
        ("Pass/Fail Status" :> TryField(soup.overall_result, "Pass/Fail Status")) @@
        ("Max User Load" :> TryField(soup.overall_result, "Max User Load")) @@
        ("Failed Requests %" :> TryField(soup.requests, "Failed Requests %"))

----------------------------------------------------------------------------
(* parse_transaction_details, parse_top_errors *)

\* [td.get_text(strip=True) for td in tr.find_all("td")]
Tds(tr) == [i \in 1..Len(tr) |-> Strip(tr[i])]

TxnRecord(tds) == ("Transaction name" :> tds[1]) @@ ("Avg.(s)" :> tds[AvgCell])

ErrRecord(tds, report_name) ==
    ("Testcase Name" :> report_name) @@ ("T.C." :> tds[1]) @@
    ("Request Id" :> tds[2]) @@ ("Error Description" :> tds[3])

\* the loop over table.find_all("tr")[1:], row k onwards
RECURSIVE TxnLoop(_, _)
TxnLoop(trs, k) ==
    IF k > Len(trs) THEN <<>>
    ELSE IF Len(Tds(trs[k])) > TxnMinCells
         THEN <<TxnRecord(Tds(trs[k]))>> \o TxnLoop(trs, k + 1)
         ELSE TxnLoop(trs, k + 1)

parse_transaction_details(soup) ==
    IF ~soup.txn_section.present THEN <<>>
    ELSE IF ~soup.txn_section.has_table THEN <<>>
    ELSE TxnLoop(soup.txn_section.trs, 2)

RECURSIVE ErrLoop(_, _, _)
ErrLoop(trs, k, report_name) ==
    IF k > Len(trs) THEN <<>>
    ELSE IF Len(Tds(trs[k])) >= ErrMinCells
         THEN <<ErrRecord(Tds(trs[k]), report_name)>> \o ErrLoop(trs, k + 1, report_name)
         ELSE ErrLoop(trs, k + 1, report_name)

\* the loop started at the first row: the header row is not skipped
parse_top_errors_noskip(soup, report_name) ==
    IF ~soup.err_section.present THEN <<>>
    ELSE IF ~soup.err_section.has_table THEN <<>>
    ELSE ErrLoop(soup.err_section.trs, 1, report_name)

parse_top_errors(soup, report_name) ==
    IF ~soup.err_section.present THEN <<>>
    ELSE IF ~soup.err_section.has_table THEN <<>>
    ELSE ErrLoop(soup.err_section.trs, 2, report_name)

\* DataFrame.empty
Empty(df) == Len(df) = 0

----------------------------------------------------------------------------
(* the dict of Series and pd.concat(axis=1) *)

EmptyDict == [keys |-> <<>>, val |-> <<>>]

\* d[k] = v: a new key is appended, an existing key keeps its place and
\* its value is replaced
DictSet(d, k, v) ==
    [keys |-> IF k \in DOMAIN d.val THEN d.keys ELSE Append(d.keys, k),
     val |-> (k :> v) @@ d.val]

\* df_txn.set_index("Transaction name")["Avg.(s)"]
SetIndex(df) ==
    [index |-> [i \in 1..Len(df) |-> df[i]["Transaction name"]],
     values |-> [i \in 1..Len(df) |-> df[i]["Avg.(s)"]]]

HasDuplicates(ix) == \E i, j \in 1..Len(ix) : i < j /\ ix[i] = ix[j]

InSeq(x, s) == \E i \in 1..Len(s) : s[i] = x

\* the labels of s that are not yet in acc, appended in order
RECURSIVE AppendNew(_, _)
AppendNew(acc, s) ==
    IF s = <<>> THEN acc
    ELSE AppendNew(IF InSeq(Head(s), acc) THEN acc ELSE Append(acc, Head(s)), Tail(s))

\* union of the Series' indexes, in order of first appearance
RECURSIVE UnionIndex(_, _, _)
UnionIndex(d, k, acc) ==
    IF k > Len(d.keys) THEN acc
    ELSE UnionIndex(d, k + 1, AppendNew(acc, d.val[d.keys[k]].index))

AllIndexesEqual(d) ==
    \A k \in 1..Len(d.keys) : d.val[d.keys[k]].index = d.val[d.keys[1]].index

\* the joined index differs from some Series' index and a Series with
\* duplicate labels has to be reindexed: pandas raises
ConcatRaises(d) ==
    ~AllIndexesEqual(d) /\
    \E k \in 1..Len(d.keys) : HasDuplicates(d.val[d.keys[k]].index)

PositionOf(x, s) == CHOOSE i \in 1..Len(s) : s[i] = x

\* pd.concat(d, axis=1) with the columns named after the keys; cells are
\* <<text>> or NaN
Concat(d) ==
    IF AllIndexesEqual(d)
    THEN LET ix == d.val[d.keys[1]].index
         IN  [index |-> ix,
              columns |-> d.keys,
              data |-> [r \in 1..Len(ix) |->
                          [c \in DOMAIN d.val |-> <<d.val[c].values[r]>>]]]
    ELSE LET ix == UnionIndex(d, 1, <<>>)
         IN  [index |-> ix,
              columns |-> d.keys,
              data |-> [r \in 1..Len(ix) |->
                          [c \in DOMAIN d.val |->
                             IF InSeq(ix[r], d.val[c].index)
                             THEN <<d.val[c].values[PositionOf(ix[r], d.val[c].index)]>>
                             ELSE NaN]]]

\* the loop of pd.to_numeric over the report columns
CoerceColumns(df) ==
    [df EXCEPT !.data = [r \in 1..Len(df.index) |->
                           [c \in DOMAIN df.data[r] |-> ToNumeric(df.data[r][c])]]]

NoFrame == [index |-> <<>>, columns |-> <<>>, data |-> <<>>]

----------------------------------------------------------------------------
(* SLA annotation *)

\* the cells of the report columns (the melted table): <<row, column>>
Cells(df) == {<<r, df.columns[k]>> : r \in 1..Len(df.index), k \in 1..Len(df.columns)}

\* highlight_sla applied to every report cell
Highlight(df, sla) == {c \in Cells(df) : GreaterThan(df.data[c[1]][c[2]], sla)}

\* all_values["Within SLA"].sum()
WithinCount(df, sla) ==
    Cardinality({c \in Cells(df) : LessEqual(df.data[c[1]][c[2]], sla)})

\* len(all_values) - within_sla
AboveCount(df, sla) == Cardinality(Cells(df)) - WithinCount(df, sla)

----------------------------------------------------------------------------
(* The script *)

\* the values st.number_input(min_value=0.0, step=0.1) can return
SlaInputs == {SlaMin, SlaDefault, 14}

\* lines 107-112 and 194-195
Main ==
    /\ pc = "start"
    /\ IF Len(uploaded_files) >= 1
       THEN /\ rendered' = rendered \cup {"success"}
            /\ pc' = "loop"
       ELSE /\ rendered' = rendered \cup {"info"}
            /\ pc' = "done"
    /\ UNCHANGED <<uploaded_files, idx, summary_data, transactions_dict, error_rows,
                   df_txn, df_errors, sla_value, combined_df, highlighted,
                   within_sla, above_sla, df_error_matrix>>

\* lines 114-126: one iteration of the loop over uploaded_files
ProcessFile ==
    /\ pc = "loop"
    /\ idx < Len(uploaded_files)
    /\ LET file == uploaded_files[idx + 1]
           soup == file
           txn == parse_transaction_details(soup)
           errs == parse_top_errors(soup, file.name)
       IN  /\ summary_data' =
                  Append(summary_data, parse_stresstimulus_summary(soup, file.name))
           /\ df_txn' = txn
           /\ transactions_dict' =
                  IF ~Empty(txn)
                  THEN DictSet(transactions_dict, file.name, SetIndex(txn))
                  ELSE transactions_dict
           /\ df_errors' = errs
           /\ error_rows' = IF ~Empty(errs) THEN Append(error_rows, errs) ELSE error_rows
    /\ idx' = idx + 1
    /\ pc' = IF idx + 1 = Len(uploaded_files) THEN "compare" ELSE "loop"
    /\ UNCHANGED <<uploaded_files, sla_value, combined_df, highlighted, within_sla,
                   above_sla, df_error_matrix, rendered>>

\* lines 129-184: the details table, then the comparison table, its
\* highlighting and the compliance counts when two or more reports have
\* transaction rows
Compare ==
    /\ pc = "compare"
    /\ \E s \in SlaInputs :
         IF Len(transactions_dict.keys) > 1
         THEN /\ sla_value' = s
              /\ IF ConcatRaises(transactions_dict)
                 THEN /\ pc' = "crashed"
                      /\ rendered' = rendered \cup {"details", "exception"}
                      /\ UNCHANGED <<combined_df, highlighted, within_sla, above_sla>>
                 ELSE LET df == CoerceColumns(Concat(transactions_dict))
                      IN  /\ combined_df' = df
                          /\ highlighted' = Highlight(df, s)
                          /\ within_sla' = WithinCount(df, s)
                          /\ above_sla' = AboveCount(df, s)
                          /\ rendered' = rendered \cup {"details", "comparison", "pie"}
                          /\ pc' = "errors"
         ELSE /\ pc' = "errors"
              /\ rendered' = rendered \cup {"details"}
              /\ UNCHANGED <<sla_value, combined_df, highlighted, within_sla, above_sla>>
    /\ UNCHANGED <<uploaded_files, idx, summary_data, transactions_dict, error_rows,
                   df_txn, df_errors, df_error_matrix>>

\* pd.concat(error_rows, ignore_index=True)
RECURSIVE ConcatRows(_)
ConcatRows(frames) ==
    IF frames = <<>> THEN <<>> ELSE Head(frames) \o ConcatRows(Tail(frames))

\* lines 187-192
ErrorMatrix ==
    /\ pc = "errors"
    /\ IF error_rows # <<>>
       THEN /\ df_error_matrix' = ConcatRows(error_rows)
            /\ rendered' = rendered \cup {"error_matrix"}
       ELSE /\ df_error_matrix' = df_error_matrix
            /\ rendered' = rendered \cup {"warning"}
    /\ pc' = "done"
    /\ UNCHANGED <<uploaded_files, idx, summary_data, transactions_dict, error_rows,
                   df_txn, df_errors, sla_value, combined_df, highlighted,
                   within_sla, above_sla>>

Next == Main \/ ProcessFile \/ Compare \/ ErrorMatrix

\* the state when the script starts on the batch
InitWith(batches) ==
    /\ uploaded_files \in batches
    /\ pc = "start"
    /\ idx = 0
    /\ summary_data = <<>>
    /\ transactions_dict = EmptyDict
    /\ error_rows = <<>>
    /\ df_txn = <<>>
    /\ df_errors = <<>>
    /\ sla_value = SlaDefault
    /\ combined_df = NoFrame
    /\ highlighted = {}
    /\ within_sla = 0
    /\ above_sla = 0
    /\ df_error_matrix = <<>>
    /\ rendered = {}

----------------------------------------------------------------------------
(* Batches of documents *)

SeqsUpTo(S, n) == UNION {[1..k -> S] : k \in 0..n}

FullSection(labels) == [present |-> TRUE, labels |-> [l \in labels |-> Cell("value")]]

\* a document whose summary sections are all present
Document(name, txn, err) ==
    [name |-> name,
     run_info |-> FullSection(RunInfoLabels),
     overall_result |-> FullSection(OverallLabels),
     requests |-> FullSection(RequestsLabels),
     txn_section |-> txn,
     err_section |-> err]

FileNames == {"A.html", "B.html", "C.html"}

TxnSections(rows, n) == {NoSection} \cup {Table(<<HeaderRow>> \o t) : t \in SeqsUpTo(rows, n)}

\* Pipeline batches: up to MaxFiles reports, file names free (two uploads may
\* carry the same name), tables of well-formed rows, names free (a table may
\* repeat a transaction name)
PipelineRows ==
    {TxnRow("Login", "0.9", 9), TxnRow("Login", "1.4", 9), TxnRow("Checkout", "2.1", 9)}

PipelineFiles ==
    {Document(n, t, NoSection) : n \in FileNames, t \in TxnSections(PipelineRows, MaxTxnRows)}

Init == InitWith(SeqsUpTo(PipelineFiles, MaxFiles))

Spec == Init /\ [][Next]_vars

\* SLA batches: cells that are zero, positive, not numeric, or absent; the
\* k-th upload is named after its position
SlaNames == <<"A.html", "B.html", "C.html">>

SlaRows ==
    {TxnRow("Login", "0", 9), TxnRow("Login", "1.4", 9),
     TxnRow("Checkout", "0.9", 9), TxnRow("Checkout", "N/A", 9)}

SlaFiles ==
    {Document(SlaNames[i], t, NoSection) :
        i \in 1..Len(SlaNames), t \in TxnSections(SlaRows, MaxSlaRows)}

SlaBatches ==
    {b \in SeqsUpTo(SlaFiles, MaxSlaFiles) : \A i \in 1..Len(b) : b[i].name = SlaNames[i]}

InitSla == InitWith(SlaBatches)

SpecSla == InitSla /\ [][Next]_vars

\* Error batches: the Top Errors section absent, without a table, or with a
\* table of well-formed and malformed rows
ErrNames == {"A.html", "B.html"}

ErrRows == {HeaderRow, ErrRow("TC1", 3), ErrRow("TC2", 2)}

ErrSections(rows, n) == {NoSection, NoTable} \cup {Table(t) : t \in SeqsUpTo(rows, n)}

ErrTxnSections ==
    {NoSection,
     Table(<<HeaderRow, TxnRow("Login", "0.9", 9)>>),
     Table(<<HeaderRow, TxnRow("Login", "0.9", 9), TxnRow("Login", "1.4", 9)>>)}

ErrFiles ==
    {Document(n, t, e) : n \in ErrNames, t \in ErrTxnSections,
                         e \in ErrSections(ErrRows, MaxErrRows)}

InitErr == InitWith(SeqsUpTo(ErrFiles, MaxErrFiles))

SpecErr == InitErr /\ [][Next]_vars

\* Summary documents: every section absent or present, every label absent,
\* present without a following cell, or followed by a cell
SummaryNames == {"A.html", "B.html"}

LabelStates == {NoLabel, NoCell, Cell("Passed"), Cell("  Passed")}

SummarySections(labels) ==
    {AbsentSection(labels)} \cup
    {[present |-> TRUE, labels |-> f] : f \in [labels -> LabelStates]}

SummaryFiles ==
    {[name |-> n, run_info |-> r, overall_result |-> o, requests |-> q,
      txn_section |-> NoSection, err_section |-> NoSection] :
        n \in SummaryNames, r \in SummarySections(RunInfoLabels),
        o \in SummarySections(OverallLabels), q \in SummarySections(RequestsLabels)}

InitSummary == InitWith({<<>>} \cup {<<f>> : f \in SummaryFiles})

SpecSummary == InitSummary /\ [][Next]_vars

\* Row-extraction documents: tables of up to MaxRows <tr> rows, the first one
\* included, with too few, just enough and more than enough cells
RowsTxnPool ==
    {HeaderRow, TxnRow("Login", "0.9", 9), TxnRow(" Login", " 1.4 ", 10),
     TxnRow("Checkout", "2.1", 8), TxnRow("Checkout", "2.1", 2)}

RowsErrPool == {HeaderRow, ErrRow("TC1", 3), ErrRow("TC2", 4), ErrRow("TC3", 2)}

RowsFiles ==
    {Document("A.html", t, e) : t \in {NoSection, NoTable} \cup
                                      {Table(r) : r \in SeqsUpTo(RowsTxnPool, MaxRows)},
                                e \in {NoSection}}
    \cup
    {Document("A.html", t, e) : t \in {NoSection},
                                e \in {NoSection, NoTable} \cup
                                      {Table(r) : r \in SeqsUpTo(RowsErrPool, MaxRows)}}

InitRows == InitWith({<<>>} \cup {<<f>> : f \in RowsFiles})

SpecRows == InitRows /\ [][Next]_vars

----------------------------------------------------------------------------
(* Properties *)

TableBuilt == "comparison" \in rendered

LoopDone == pc \in {"compare", "errors", "done", "crashed"}

NumericCells(df) == {c \in Cells(df) : df.data[c[1]][c[2]] # NaN}

MissingCells(df) == {c \in Cells(df) : df.data[c[1]][c[2]] = NaN}

Thresholds == {-1, 0, 5, 9, 14, 30}

\* the transaction names a report's parsed table holds
NamesOf(file) ==
    LET df == parse_transaction_details(file)
    IN  {df[k]["Transaction name"] : k \in 1..Len(df)}

\* the files of the batch that yielded at least one transaction row
WithRows == {i \in 1..Len(uploaded_files) : NamesOf(uploaded_files[i]) # {}}

\* C1: in the SLA compliance summary missing cells are excluded from the
\* denominator: within + above is the number of numeric cells of the
\* combined table.
C1_MissingExcluded ==
    TableBuilt =>
        within_sla + above_sla = Cardinality(NumericCells(combined_df))

\* the file names of the batch are pairwise distinct and no report repeats
\* a transaction name
DistinctNames ==
    /\ \A i, j \in 1..Len(uploaded_files) :
         i # j => uploaded_files[i].name # uploaded_files[j].name
    /\ \A i \in 1..Len(uploaded_files) :
         ~HasDuplicates(SetIndex(parse_transaction_details(uploaded_files[i])).index)

\* C2: the comparison table is the outer join of the per-report tables: one
\* row per transaction name of any report, one column per uploaded report,
\* and each cell holds the report's average for the name, or the missing
\* marker when the report lacks the name.  Stated for the batches whose file
\* names are distinct and whose reports repeat no transaction name.
C2_OuterJoin ==
    (TableBuilt /\ DistinctNames) =>
        LET df == combined_df
            files == 1..Len(uploaded_files)
        IN  /\ Len(df.columns) = Len(uploaded_files)
            /\ {df.index[r] : r \in 1..Len(df.index)} =
                   UNION {NamesOf(uploaded_files[i]) : i \in files}
            /\ ~HasDuplicates(df.index)
            /\ \A r \in 1..Len(df.index) : \A i \in files :
                 LET f == uploaded_files[i]
                     rows == parse_transaction_details(f)
                 IN  /\ f.name \in DOMAIN df.data[r]
                     /\ IF df.index[r] \in NamesOf(f)
                        THEN \E k \in 1..Len(rows) :
                               /\ rows[k]["Transaction name"] = df.index[r]
                               /\ df.data[r][f.name] = ToNumeric(<<rows[k]["Avg.(s)"]>>)
                        ELSE df.data[r][f.name] = NaN

\* C3: every report of a run has a unique report name: each uploaded file
\* keeps its own summary row with a distinct Report Name and its own column
\* of transaction data, none overwritten by another file's.
C3_UniqueReportNames ==
    LoopDone =>
        /\ \A i, j \in 1..Len(summary_data) :
             i # j => summary_data[i]["Report Name"] # summary_data[j]["Report Name"]
        /\ Len(transactions_dict.keys) = Cardinality(WithRows)
        /\ \A i \in WithRows :
             \E k \in DOMAIN transactions_dict.val :
               transactions_dict.val[k] =
                   SetIndex(parse_transaction_details(uploaded_files[i]))

\* C4: a transaction name identifies at most one row of a report's table: a
\* report contributes a single entry per name, the aggregation completes,
\* and the combined table has one row for the name.
C4_OneRowPerName ==
    /\ \A k \in DOMAIN transactions_dict.val :
         ~HasDuplicates(transactions_dict.val[k].index)
    /\ pc # "crashed"
    /\ ~HasDuplicates(combined_df.index)

\* the rows after the first that have at least n cells, in document order
WellFormedRows(section, n) ==
    IF section.present /\ section.has_table /\ Len(section.trs) > 1
    THEN SelectSeq(Tail(section.trs), LAMBDA tr : Len(tr) >= n)
    ELSE <<>>

\* C5: row extraction skips exactly the malformed rows: the rows returned by
\* parse_transaction_details (parse_top_errors) are, in document order, the
\* rows after the first with at least 9 (3) cells.
C5_SkipsExactlyMalformed ==
    idx >= 1 =>
        LET f == uploaded_files[idx]
            txn == WellFormedRows(f.txn_section, 9)
            err == WellFormedRows(f.err_section, 3)
        IN  /\ Len(df_txn) = Len(txn)
            /\ \A k \in 1..Len(txn) :
                 /\ df_txn[k]["Transaction name"] = Strip(txn[k][1])
                 /\ df_txn[k]["Avg.(s)"] = Strip(txn[k][9])
            /\ Len(df_errors) = Len(err)
            /\ \A k \in 1..Len(err) :
                 /\ df_errors[k]["Testcase Name"] = f.name
                 /\ df_errors[k]["T.C."] = Strip(err[k][1])
                 /\ df_errors[k]["Request Id"] = Strip(err[k][2])
                 /\ df_errors[k]["Error Description"] = Strip(err[k][3])

\* a malformed row between two well-formed rows was dropped and both
\* siblings were extracted, in either table
C5_Witness ==
    /\ idx = 1
    /\ \/ /\ Len(uploaded_files[1].txn_section.trs) = 4
          /\ Len(uploaded_files[1].txn_section.trs[3]) = 8
          /\ Len(df_txn) = 2
       \/ /\ Len(uploaded_files[1].err_section.trs) = 4
          /\ Len(uploaded_files[1].err_section.trs[3]) = 2
          /\ Len(df_errors) = 2

\* every error row the reports of the batch hold, tagged with its report
RECURSIVE ExpectedErrors(_)
ExpectedErrors(k) ==
    IF k > Len(uploaded_files) THEN <<>>
    ELSE LET f == uploaded_files[k]
             err == WellFormedRows(f.err_section, 3)
         IN  [j \in 1..Len(err) |->
                ("Testcase Name" :> f.name) @@ ("T.C." :> Strip(err[j][1])) @@
                ("Request Id" :> Strip(err[j][2])) @@
                ("Error Description" :> Strip(err[j][3]))]
             \o ExpectedErrors(k + 1)

\* C6: a report without a Top Errors section (or table) yields an empty
\* error list; a batch without any error row ends with the 'no errors
\* found' warning instead of a failure; the error matrix is shown exactly
\* when some report yielded an error row, and it holds every error row of
\* every report, tagged with its report name.
C6_ErrorMatrix ==
    /\ (idx >= 1 /\ ~uploaded_files[idx].err_section.has_table) => df_errors = <<>>
    /\ (pc \in {"done", "crashed"} /\ Len(uploaded_files) >= 1) =>
         /\ "exception" \notin rendered
         /\ ("error_matrix" \in rendered) <=> (ExpectedErrors(1) # <<>>)
         /\ ("warning" \in rendered) <=> (ExpectedErrors(1) = <<>>)
         /\ ("error_matrix" \in rendered) => df_error_matrix = ExpectedErrors(1)

NumericAbove(df, t) ==
    {c \in Cells(df) : df.data[c[1]][c[2]] # NaN /\ df.data[c[1]][c[2]][1] > t}

NumericAtMost(df, t) ==
    {c \in Cells(df) : df.data[c[1]][c[2]] # NaN /\ df.data[c[1]][c[2]][1] <= t}

\* C7 as stated: with a threshold of zero or less every numeric cell is
\* marked as a breach and the within-SLA count is 0.
C7_AllNumericBreach ==
    (TableBuilt /\ sla_value <= 0) =>
        /\ highlighted = NumericCells(combined_df)
        /\ within_sla = 0

\* C7 amended: the threshold is never below zero; with a threshold of zero
\* the cells marked as breaches are the numeric cells greater than zero, each
\* counted above SLA, and the within-SLA count is the number of numeric
\* cells that are not greater than zero.
C7_BreachAboveZero ==
    /\ sla_value >= 0
    /\ (TableBuilt /\ sla_value <= 0) =>
         /\ highlighted = NumericAbove(combined_df, 0)
         /\ within_sla = Cardinality(NumericAtMost(combined_df, 0))
         /\ above_sla = Cardinality(Cells(combined_df)) - within_sla
         /\ above_sla >= Cardinality(highlighted)

\* threshold zero, a cell equal to zero and a cell above zero
C7_Witness ==
    /\ TableBuilt
    /\ sla_value = 0
    /\ NumericAtMost(combined_df, 0) # {}
    /\ highlighted # {}

\* C8: SLA annotation is monotone in the threshold: for t1 <= t2 the
\* above-SLA count with t2 is at most the count with t1, and the cells
\* highlighted with t2 are among those highlighted with t1.
C8_Monotone ==
    TableBuilt =>
        \A t1, t2 \in Thresholds :
            t1 <= t2 =>
                /\ AboveCount(combined_df, t2) <= AboveCount(combined_df, t1)
                /\ Highlight(combined_df, t2) \subseteq Highlight(combined_df, t1)

\* a table with a missing cell whose count and highlighting do change
\* between two thresholds
C8_Witness ==
    /\ TableBuilt
    /\ MissingCells(combined_df) # {}
    /\ AboveCount(combined_df, 14) < AboveCount(combined_df, 0)
    /\ Highlight(combined_df, 14) # Highlight(combined_df, 0)
    /\ above_sla = AboveCount(combined_df, sla_value)

\* C9: summary extraction tolerates any subset of the three summary sections
\* being absent: every parsed document has a record with exactly the six
\* keys, Report Name is the file name, and the fields of an absent section
\* are "N/A".
C9_SummaryTolerant ==
    /\ Len(summary_data) = idx
    /\ \A i \in 1..Len(summary_data) :
         LET f == uploaded_files[i]
             r == summary_data[i]
         IN  /\ DOMAIN r = SummaryKeys
             /\ r["Report Name"] = f.name
             /\ ~f.run_info.present =>
                  (r["Start Time"] = "N/A" /\ r["End Time"] = "N/A")
             /\ ~f.overall_result.present =>
                  (r["Pass/Fail Status"] = "N/A" /\ r["Max User Load"] = "N/A")
             /\ ~f.requests.present => r["Failed Requests %"] = "N/A"

\* a document with two sections absent and one present was parsed
C9_Witness ==
    /\ idx = 1
    /\ ~uploaded_files[1].run_info.present
    /\ ~uploaded_files[1].requests.present
    /\ uploaded_files[1].overall_result.present
    /\ summary_data[1]["Pass/Fail Status"] = "Passed"
    /\ summary_data[1]["Start Time"] = "N/A"

\* the text of the cell following the label, when the section has the
\* label followed by a cell
Extracted(section, label, value) ==
    (section.present /\ section.labels[label].found /\ section.labels[label].td)
        => value = Strip(section.labels[label].text)

\* C10: each summary field is extracted independently of the others: a
\* field equals the text of the cell following its own label whenever its
\* section has that label followed by a cell, whatever other labels exist.
C10_FieldIndependence ==
    \A i \in 1..Len(summary_data) :
        LET f == uploaded_files[i]
            r == summary_data[i]
        IN  /\ Extracted(f.run_info, "Start time", r["Start Time"])
            /\ Extracted(f.run_info, "End time", r["End Time"])
            /\ Extracted(f.overall_result, "Pass/Fail Status", r["Pass/Fail Status"])
            /\ Extracted(f.overall_result, "Max User Load", r["Max User Load"])
            /\ Extracted(f.requests, "Failed Requests %", r["Failed Requests %"])

====
